---- MODULE Spec2Model ----
(***************************************************************************)
(* Expression converter: infix / prefix / postfix notation conversion      *)
(* (src/src/lib/conversion.ts) and the form that calls it                  *)
(* (src/src/components/expression-converter.tsx).                          *)
(*                                                                         *)
(* A string is a sequence of one-character strings; a token is a string;   *)
(* a token list is a sequence of tokens.  A call returns a record          *)
(* [ok, val, err]: val is the returned string (or token list), err the     *)
(* ConversionError kind of the Error thrown.                               *)
(***************************************************************************)
EXTENDS Integers, Sequences, FiniteSets, TLC

VARIABLES src, notation, arg, chain, ret, tokens,
          inputValue, outputValue, conversionType, error, showOutput

vars == <<src, notation, arg, chain, ret, tokens,
          inputValue, outputValue, conversionType, error, showOutput>>

libVars == <<src, notation, arg, chain, ret, tokens>>
uiVars == <<inputValue, outputValue, conversionType, error, showOutput>>

(***************************************************************************)
(* Bounds of the model.                                                    *)
(***************************************************************************)
MaxOps == 2
MaxParens == 1
MaxRawLen == 3
MaxToks == 4
MaxChain == 2
MaxInputLen == 3

(***************************************************************************)
(* Results and sequence helpers.                                           *)
(***************************************************************************)
Ok(v) == [ok |-> TRUE, val |-> v, err |-> ""]

Err(kind) == [ok |-> FALSE, val |-> <<>>, err |-> kind]

Reverse(s) == [i \in 1..Len(s) |-> s[Len(s) + 1 - i]]

Top(stack) == stack[Len(stack)]

Pop(stack) == SubSeq(stack, 1, Len(stack) - 1)

Digits == {"0", "1", "2", "3", "4", "5", "6", "7", "8", "9"}

Letters == {"a", "b", "c", "d", "e", "f", "g", "h", "i", "j", "k", "l", "m",
            "n", "o", "p", "q", "r", "s", "t", "u", "v", "w", "x", "y", "z",
            "A", "B", "C", "D", "E", "F", "G", "H", "I", "J", "K", "L", "M",
            "N", "O", "P", "Q", "R", "S", "T", "U", "V", "W", "X", "Y", "Z"}

Whitespace == {" ", "\t", "\n"}

\* /\d/.test(s): some character of s is a digit
HasDigit(s) == \E i \in 1..Len(s) : s[i] \in Digits

RECURSIVE trimLeft(_)
trimLeft(s) ==
  IF s # <<>> /\ Head(s) \in Whitespace THEN trimLeft(Tail(s)) ELSE s

\* String.prototype.trim
trim(s) == Reverse(trimLeft(Reverse(trimLeft(s))))

RECURSIVE join(_)
\* Array.prototype.join(' ')
join(toks) ==
  IF toks = <<>> THEN <<>>
  ELSE IF Len(toks) = 1 THEN toks[1]
  ELSE toks[1] \o <<" ">> \o join(Tail(toks))

(***************************************************************************)
(* Classifier.                                                             *)
(***************************************************************************)
getPrecedence(op) ==
  IF op \in {<<"+">>, <<"-">>} THEN 1
  ELSE IF op \in {<<"*">>, <<"/">>} THEN 2
  ELSE 0

isOperator(token) == token \in {<<"+">>, <<"-">>, <<"*">>, <<"/">>}

isOperand(token) ==
  ~isOperator(token) /\ token # <<"(">> /\ token # <<")">>

(***************************************************************************)
(* Infix tokenizer.                                                        *)
(***************************************************************************)
\* the pending literal is pushed when it is non-empty
Flush(toks, currentToken) ==
  IF currentToken # <<>> THEN Append(toks, currentToken) ELSE toks

\* the digit test of the scan: a digit, or '.' immediately before a digit
IsNumberChar(expression, i) ==
  \/ expression[i] \in Digits
  \/ /\ expression[i] = "."
     /\ i + 1 <= Len(expression)
     /\ expression[i + 1] \in Digits

\* the letter branch: the new <<token list, pending literal>>
LetterStep(toks, currentToken, char) ==
  IF currentToken # <<>> /\ ~HasDigit(currentToken)
    THEN <<toks, Append(currentToken, char)>>
  ELSE IF currentToken # <<>>
    THEN <<Append(toks, currentToken), <<char>>>>
  ELSE <<toks, <<char>>>>

RECURSIVE tokenizeInfixLoop(_, _, _, _)
tokenizeInfixLoop(expression, i, toks, currentToken) ==
  IF i > Len(expression) THEN Ok(Flush(toks, currentToken))
  ELSE LET char == expression[i] IN
    IF char \in Whitespace
      THEN tokenizeInfixLoop(expression, i + 1, Flush(toks, currentToken), <<>>)
    ELSE IF IsNumberChar(expression, i)
      THEN tokenizeInfixLoop(expression, i + 1, toks, Append(currentToken, char))
    ELSE IF isOperator(<<char>>) \/ char = "(" \/ char = ")"
      THEN tokenizeInfixLoop(expression, i + 1,
                             Append(Flush(toks, currentToken), <<char>>), <<>>)
    ELSE IF char \in Letters
      THEN LET st == LetterStep(toks, currentToken, char)
           IN tokenizeInfixLoop(expression, i + 1, st[1], st[2])
    ELSE Err("InvalidCharacter")

tokenizeInfix(expression) == tokenizeInfixLoop(expression, 1, <<>>, <<>>)

(***************************************************************************)
(* Linear tokenizer: trim, split on runs of whitespace, drop empty pieces. *)
(***************************************************************************)
RECURSIVE splitLoop(_, _, _, _)
splitLoop(s, i, toks, cur) ==
  IF i > Len(s) THEN Flush(toks, cur)
  ELSE IF s[i] \in Whitespace
    THEN splitLoop(s, i + 1, Flush(toks, cur), <<>>)
  ELSE splitLoop(s, i + 1, toks, Append(cur, s[i]))

tokenizePrefixPostfix(expression) == splitLoop(trim(expression), 1, <<>>, <<>>)

(***************************************************************************)
(* Infix -> postfix (shunting yard).                                       *)
(***************************************************************************)
RECURSIVE PopToParen(_, _)
\* while the stack is non-empty and its top is not '(': move top to output
PopToParen(stack, out) ==
  IF stack # <<>> /\ Top(stack) # <<"(">>
    THEN PopToParen(Pop(stack), Append(out, Top(stack)))
  ELSE <<stack, out>>

\* faulty variant: equal precedence no longer pops
PostfixPops_Strict(stack, token) ==
  /\ stack # <<>>
  /\ Top(stack) # <<"(">>
  /\ getPrecedence(Top(stack)) > getPrecedence(token)

\* the loop condition of the operator branch of infixToPostfix
PostfixPops(stack, token) ==
  /\ stack # <<>>
  /\ Top(stack) # <<"(">>
  /\ getPrecedence(Top(stack)) >= getPrecedence(token)

RECURSIVE PostfixPopOps(_, _, _)
PostfixPopOps(stack, out, token) ==
  IF PostfixPops(stack, token)
    THEN PostfixPopOps(Pop(stack), Append(out, Top(stack)), token)
  ELSE <<Append(stack, token), out>>

\* faulty variant: the final flush looks for the wrong parenthesis
PostfixUnclosed_WrongParen(stack) == Top(stack) = <<")">>

\* the check at the top of the final flush of infixToPostfix
PostfixUnclosed(stack) == Top(stack) = <<"(">>

RECURSIVE PostfixFlush(_, _)
PostfixFlush(stack, out) ==
  IF stack = <<>> THEN Ok(join(out))
  ELSE IF PostfixUnclosed(stack) THEN Err("MismatchedParenUnclosed")
  ELSE PostfixFlush(Pop(stack), Append(out, Top(stack)))

RECURSIVE PostfixLoop(_, _, _, _)
PostfixLoop(toks, i, stack, postfixTokens) ==
  IF i > Len(toks) THEN PostfixFlush(stack, postfixTokens)
  ELSE LET token == toks[i] IN
    IF isOperand(token)
      THEN PostfixLoop(toks, i + 1, stack, Append(postfixTokens, token))
    ELSE IF token = <<"(">>
      THEN PostfixLoop(toks, i + 1, Append(stack, token), postfixTokens)
    ELSE IF token = <<")">>
      THEN LET st == PopToParen(stack, postfixTokens) IN
           IF st[1] = <<>> \/ Top(st[1]) # <<"(">>
             THEN Err("MismatchedParenUnexpectedClose")
           ELSE PostfixLoop(toks, i + 1, Pop(st[1]), st[2])
    ELSE IF isOperator(token)
      THEN LET st == PostfixPopOps(stack, postfixTokens, token)
           IN PostfixLoop(toks, i + 1, st[1], st[2])
    ELSE Err("InvalidToken")

infixToPostfix(infix) ==
  IF trim(infix) = <<>> THEN Ok(<<>>)
  ELSE LET t == tokenizeInfix(infix) IN
    IF ~t.ok THEN Err(t.err)
    ELSE PostfixLoop(t.val, 1, <<>>, <<>>)

(***************************************************************************)
(* Infix -> prefix: reverse, swap parentheses, scan, reverse.              *)
(***************************************************************************)
SwapParens(toks) ==
  [i \in 1..Len(toks) |->
     IF toks[i] = <<"(">> THEN <<")">>
     ELSE IF toks[i] = <<")">> THEN <<"(">>
     ELSE toks[i]]

\* faulty variant: equal precedence pops, as in the postfix scan
PrefixPops_NonStrict(stack, token) ==
  /\ stack # <<>>
  /\ Top(stack) # <<"(">>
  /\ getPrecedence(Top(stack)) >= getPrecedence(token)

\* the loop condition of the operator branch of infixToPrefix
PrefixPops(stack, token) ==
  /\ stack # <<>>
  /\ Top(stack) # <<"(">>
  /\ getPrecedence(Top(stack)) > getPrecedence(token)

RECURSIVE PrefixPopOps(_, _, _)
PrefixPopOps(stack, out, token) ==
  IF PrefixPops(stack, token)
    THEN PrefixPopOps(Pop(stack), Append(out, Top(stack)), token)
  ELSE <<Append(stack, token), out>>

\* the check at the top of the final flush of infixToPrefix
PrefixUnclosed(stack) == Top(stack) = <<"(">>

RECURSIVE PrefixFlush(_, _)
PrefixFlush(stack, out) ==
  IF stack = <<>> THEN Ok(join(Reverse(out)))
  ELSE IF PrefixUnclosed(stack) THEN Err("MismatchedParenUnclosed")
  ELSE PrefixFlush(Pop(stack), Append(out, Top(stack)))

RECURSIVE PrefixLoop(_, _, _, _)
PrefixLoop(toks, i, stack, tempPrefixTokens) ==
  IF i > Len(toks) THEN PrefixFlush(stack, tempPrefixTokens)
  ELSE LET token == toks[i] IN
    IF isOperand(token)
      THEN PrefixLoop(toks, i + 1, stack, Append(tempPrefixTokens, token))
    ELSE IF token = <<"(">>
      THEN PrefixLoop(toks, i + 1, Append(stack, token), tempPrefixTokens)
    ELSE IF token = <<")">>
      THEN LET st == PopToParen(stack, tempPrefixTokens) IN
           IF st[1] = <<>> \/ Top(st[1]) # <<"(">>
             THEN Err("MismatchedParenUnexpectedClose")
           ELSE PrefixLoop(toks, i + 1, Pop(st[1]), st[2])
    ELSE IF isOperator(token)
      THEN LET st == PrefixPopOps(stack, tempPrefixTokens, token)
           IN PrefixLoop(toks, i + 1, st[1], st[2])
    ELSE PrefixLoop(toks, i + 1, stack, tempPrefixTokens)

infixToPrefix(infix) ==
  IF trim(infix) = <<>> THEN Ok(<<>>)
  ELSE LET t == tokenizeInfix(infix) IN
    IF ~t.ok THEN Err(t.err)
    ELSE PrefixLoop(SwapParens(Reverse(t.val)), 1, <<>>, <<>>)

(***************************************************************************)
(* Stack evaluator: prefix -> infix and postfix -> infix.                  *)
(***************************************************************************)
\* faulty variant: the composed string loses its parentheses
Compose_NoParens(left, token, right) ==
  left \o <<" ">> \o token \o <<" ">> \o right

\* the composed string `(${left} ${token} ${right})`
Compose(left, token, right) ==
  <<"(">> \o left \o <<" ">> \o token \o <<" ">> \o right \o <<")">>

\* operator step of prefixToInfix: first pop is the left operand
PrefixReduce(stack, token) ==
  LET op1 == Top(stack)
      op2 == Top(Pop(stack))
  IN Append(Pop(Pop(stack)), Compose(op1, token, op2))

\* faulty variant: the first pop is taken as the left operand
PostfixReduce_Swapped(stack, token) ==
  LET op1 == Top(stack)
      op2 == Top(Pop(stack))
  IN Append(Pop(Pop(stack)), Compose(op1, token, op2))

\* operator step of postfixToInfix: first pop is the right operand
PostfixReduce(stack, token) ==
  LET op2 == Top(stack)
      op1 == Top(Pop(stack))
  IN Append(Pop(Pop(stack)), Compose(op1, token, op2))

\* the operand-count guard of the operator branch of prefixToInfix
PrefixTooFew(stack) == Len(stack) < 2

\* the operand-count guard of the operator branch of postfixToInfix
PostfixTooFew(stack) == Len(stack) < 2

\* the end-of-scan check of prefixToInfix
PrefixMalformed(stack) == Len(stack) # 1

\* faulty variant: only an empty stack is malformed
PostfixMalformed_OnlyEmpty(stack) == Len(stack) = 0

\* the end-of-scan check of postfixToInfix
PostfixMalformed(stack) == Len(stack) # 1

RECURSIVE PrefixEvalLoop(_, _, _)
PrefixEvalLoop(toks, i, stack) ==
  IF i > Len(toks)
    THEN IF PrefixMalformed(stack) THEN Err("MalformedExpression")
         ELSE Ok(stack[1])
  ELSE LET token == toks[i] IN
    IF isOperand(token) THEN PrefixEvalLoop(toks, i + 1, Append(stack, token))
    ELSE IF isOperator(token)
      THEN IF PrefixTooFew(stack) THEN Err("InsufficientOperands")
           ELSE PrefixEvalLoop(toks, i + 1, PrefixReduce(stack, token))
    ELSE Err("InvalidToken")

prefixToInfix(prefix) ==
  IF trim(prefix) = <<>> THEN Ok(<<>>)
  ELSE PrefixEvalLoop(Reverse(tokenizePrefixPostfix(prefix)), 1, <<>>)

RECURSIVE PostfixEvalLoop(_, _, _)
PostfixEvalLoop(toks, i, stack) ==
  IF i > Len(toks)
    THEN IF PostfixMalformed(stack) THEN Err("MalformedExpression")
         ELSE Ok(stack[1])
  ELSE LET token == toks[i] IN
    IF isOperand(token) THEN PostfixEvalLoop(toks, i + 1, Append(stack, token))
    ELSE IF isOperator(token)
      THEN IF PostfixTooFew(stack) THEN Err("InsufficientOperands")
           ELSE PostfixEvalLoop(toks, i + 1, PostfixReduce(stack, token))
    ELSE Err("InvalidToken")

postfixToInfix(postfix) ==
  IF trim(postfix) = <<>> THEN Ok(<<>>)
  ELSE PostfixEvalLoop(tokenizePrefixPostfix(postfix), 1, <<>>)

(***************************************************************************)
(* Facade: the two conversions composed through infix.                     *)
(***************************************************************************)
prefixToPostfix(prefix) ==
  IF trim(prefix) = <<>> THEN Ok(<<>>)
  ELSE LET infix == prefixToInfix(prefix) IN
    IF ~infix.ok THEN infix ELSE infixToPostfix(infix.val)

postfixToPrefix(postfix) ==
  IF trim(postfix) = <<>> THEN Ok(<<>>)
  ELSE LET infix == postfixToInfix(postfix) IN
    IF ~infix.ok THEN infix ELSE infixToPrefix(infix.val)

(***************************************************************************)
(* Inputs.  A caller may pass any string to any operation; the inputs      *)
(* enumerated are: the well-formed infix expressions, well-formed          *)
(* expressions with one character deleted, single-spaced token streams,    *)
(* and every short string over RawChars.                                   *)
(***************************************************************************)
Operators == {<<"+">>, <<"-">>, <<"*">>, <<"/">>}

\* The operands of a generated expression are distinct and taken in order
\* from one of these lists: letters, numbers, or both mixed.
LetterNames == <<<<"a">>, <<"b">>, <<"c">>, <<"d">>, <<"e">>, <<"f">>>>

NumberNames == <<<<"1", "2">>, <<"3", ".", "5">>, <<"7">>, <<".", "2", "5">>,
                 <<"4", "0">>, <<"6">>>>

MixedNames == <<<<"x">>, <<"1", "2">>, <<"y">>, <<"3", ".", "5">>, <<"z">>,
                <<"7">>>>

Namings == {LetterNames, NumberNames, MixedNames}

RawChars == {"a", "1", "+", "(", ")", " ", ".", "$"}

LinTokens == {<<"a">>, <<"b">>, <<"c">>, <<"+">>, <<"*">>, <<"d", "$">>}

\* A shape is an expression over the placeholders x (an operand) and
\* o (an operator).
RECURSIVE ShapeList(_, _)
RECURSIVE ShapeAtom(_, _)
\* the shapes of the grammar E ::= A | E o A, A ::= x | ( E ) with exactly
\* n operators and exactly p pairs of parentheses
ShapeAtom(n, p) ==
  (IF n = 0 /\ p = 0 THEN {<<"x">>} ELSE {})
  \cup (IF p >= 1 THEN {<<"(">> \o e \o <<")">> : e \in ShapeList(n, p - 1)} ELSE {})

ShapeList(n, p) ==
  ShapeAtom(n, p)
  \cup UNION {UNION {{l \o <<"o">> \o r : l \in ShapeList(n1, p1),
                                          r \in ShapeAtom(n - 1 - n1, p - p1)}
                     : p1 \in 0..p}
              : n1 \in 0..(n - 1)}

\* at most n operators and at most p pairs of parentheses
Shapes(n, p) == UNION {UNION {ShapeList(n1, p1) : p1 \in 0..p} : n1 \in 0..n}

CountOf(s, c) == Cardinality({i \in 1..Len(s) : s[i] = c})

RECURSIVE Fill(_, _, _)
\* the shape with its k-th x replaced by xs[k] and its k-th o by os[k];
\* the names are used again from the first when xs runs out
Fill(shape, xs, os) ==
  IF shape = <<>> THEN <<>>
  ELSE IF Head(shape) = "x"
    THEN Head(xs) \o Fill(Tail(shape), Append(Tail(xs), Head(xs)), os)
  ELSE IF Head(shape) = "o" THEN Head(os) \o Fill(Tail(shape), xs, Tail(os))
  ELSE <<Head(shape)>> \o Fill(Tail(shape), xs, os)

DeleteAt(s, i) == SubSeq(s, 1, i - 1) \o SubSeq(s, i + 1, Len(s))

(***************************************************************************)
(* The library: a caller converts src, and may feed a result to the        *)
(* operation that takes the notation it is in.                             *)
(***************************************************************************)
InitLib ==
  /\ arg = src
  /\ chain = <<>>
  /\ ret = Ok(<<>>)
  /\ tokens = <<>>
  /\ inputValue = <<>>
  /\ outputValue = <<>>
  /\ conversionType = "infix-to-postfix"
  /\ error = "null"
  /\ showOutput = FALSE

\* a well-formed infix expression
InitWellFormed ==
  /\ notation = "infix"
  /\ \E shape \in Shapes(MaxOps, MaxParens) :
       \E xs \in Namings :
         \E os \in [1..CountOf(shape, "o") -> Operators] :
           src = Fill(shape, xs, os)

\* a well-formed infix expression with one character deleted
InitDamaged ==
  /\ notation = "infix"
  /\ \E shape \in Shapes(1, MaxParens) :
       \E xs \in Namings :
         \E os \in [1..CountOf(shape, "o") -> Operators] :
           \E i \in 1..Len(Fill(shape, xs, os)) :
             src = DeleteAt(Fill(shape, xs, os), i)

\* a stream of tokens separated by single spaces
InitStream ==
  /\ notation \in {"prefix", "postfix"}
  /\ \E n \in 0..MaxToks : \E ts \in [1..n -> LinTokens] : src = join(ts)

\* any short string, offered in any notation
InitRaw ==
  /\ notation \in {"infix", "prefix", "postfix"}
  /\ \E n \in 0..MaxRawLen : \E cs \in [1..n -> RawChars] : src = cs

Init ==
  /\ InitWellFormed \/ InitDamaged \/ InitStream \/ InitRaw
  /\ InitLib

\* the token list of the infix scan a call makes, <<>> when it makes none
InfixTokensOf(s) ==
  IF trim(s) = <<>> \/ ~tokenizeInfix(s).ok THEN <<>> ELSE tokenizeInfix(s).val

Call(name, from, to, result, toks) ==
  /\ Len(chain) < MaxChain
  /\ notation = from
  /\ ret.ok
  /\ ret' = result
  /\ chain' = Append(chain, name)
  /\ notation' = to
  /\ arg' = IF result.ok THEN result.val ELSE arg
  /\ tokens' = toks
  /\ UNCHANGED <<src, uiVars>>

CallInfixToPostfix ==
  Call("infixToPostfix", "infix", "postfix", infixToPostfix(arg), InfixTokensOf(arg))

CallInfixToPrefix ==
  Call("infixToPrefix", "infix", "prefix", infixToPrefix(arg), InfixTokensOf(arg))

CallPrefixToInfix ==
  Call("prefixToInfix", "prefix", "infix", prefixToInfix(arg), <<>>)

CallPostfixToInfix ==
  Call("postfixToInfix", "postfix", "infix", postfixToInfix(arg), <<>>)

CallPrefixToPostfix ==
  Call("prefixToPostfix", "prefix", "postfix", prefixToPostfix(arg),
       IF prefixToInfix(arg).ok THEN InfixTokensOf(prefixToInfix(arg).val) ELSE <<>>)

CallPostfixToPrefix ==
  Call("postfixToPrefix", "postfix", "prefix", postfixToPrefix(arg),
       IF postfixToInfix(arg).ok THEN InfixTokensOf(postfixToInfix(arg).val) ELSE <<>>)

Next ==
  \/ CallInfixToPostfix
  \/ CallInfixToPrefix
  \/ CallPrefixToInfix
  \/ CallPostfixToInfix
  \/ CallPrefixToPostfix
  \/ CallPostfixToPrefix

Spec == Init /\ [][Next]_vars

(***************************************************************************)
(* The form: an input field, a conversion selector and a submit button.    *)
(***************************************************************************)
UIChars == {"a", "+", " ", ")"}

ConversionTypes ==
  {"infix-to-prefix", "infix-to-postfix", "prefix-to-postfix", "postfix-to-prefix"}

InitUI ==
  /\ inputValue = <<>>
  /\ outputValue = <<>>
  /\ conversionType = "infix-to-postfix"
  /\ error = "null"
  /\ showOutput = FALSE
  /\ src = <<>>
  /\ notation = "infix"
  /\ arg = <<>>
  /\ chain = <<>>
  /\ ret = Ok(<<>>)
  /\ tokens = <<>>

setInputValue ==
  /\ \E n \in 0..MaxInputLen : \E v \in [1..n -> UIChars] : inputValue' = v
  /\ UNCHANGED <<outputValue, conversionType, error, showOutput, libVars>>

setConversionType ==
  /\ \E t \in ConversionTypes : conversionType' = t
  /\ UNCHANGED <<inputValue, outputValue, error, showOutput, libVars>>

\* the switch of handleConvert
convert(type, text) ==
  IF type = "infix-to-postfix" THEN infixToPostfix(text)
  ELSE IF type = "infix-to-prefix" THEN infixToPrefix(text)
  ELSE IF type = "prefix-to-postfix" THEN prefixToPostfix(text)
  ELSE postfixToPrefix(text)

\* the guard of handleConvert on the input field
EmptyInputError(text) == trim(text) = <<>>

\* the effect on outputValue: the output panel shows iff there is output
outputEffect(out) == out # <<>>

handleConvert ==
  /\ IF EmptyInputError(inputValue)
       THEN /\ error' = "EmptyInput"
            /\ outputValue' = <<>>
       ELSE LET result == convert(conversionType, inputValue) IN
            IF result.ok
              THEN /\ outputValue' = result.val
                   /\ error' = "null"
              ELSE /\ outputValue' = <<>>
                   /\ error' = result.err
  /\ showOutput' = outputEffect(outputValue')
  /\ UNCHANGED <<inputValue, conversionType, libVars>>

NextUI ==
  \/ setInputValue
  \/ setConversionType
  \/ handleConvert

SpecUI == InitUI /\ [][NextUI]_vars

(***************************************************************************)
(* Reference notions the properties are stated with.                       *)
(***************************************************************************)
RECURSIVE RefLex(_, _, _)
\* the tokens of an expression: blanks separate, a maximal run of digits and
\* '.' is a number, any other character is a token
RefLex(e, i, toks) ==
  IF i > Len(e) THEN toks
  ELSE IF e[i] \in Whitespace THEN RefLex(e, i + 1, toks)
  ELSE IF /\ e[i] \in Digits \cup {"."}
          /\ i > 1
          /\ e[i - 1] \in Digits \cup {"."}
    THEN RefLex(e, i + 1, [toks EXCEPT ![Len(toks)] = Append(@, e[i])])
  ELSE RefLex(e, i + 1, Append(toks, <<e[i]>>))

\* A parse tree is <<operand>> or <<operator, left, right>>.
IsLeaf(t) == Len(t) = 1

NoTree == [ok |-> FALSE, tree |-> <<>>, next |-> 0]

RECURSIVE ParseExpr(_, _)
RECURSIVE ParseTerm(_, _)
RECURSIVE ParseFactor(_, _)
RECURSIVE ExprRest(_, _, _)
RECURSIVE TermRest(_, _, _)

\* Factor ::= operand | ( Expr )
ParseFactor(toks, i) ==
  IF i > Len(toks) THEN NoTree
  ELSE IF toks[i] = <<"(">>
    THEN LET inner == ParseExpr(toks, i + 1) IN
         IF inner.ok /\ inner.next <= Len(toks) /\ toks[inner.next] = <<")">>
           THEN [inner EXCEPT !.next = inner.next + 1]
         ELSE NoTree
  ELSE IF toks[i] \in Operators \cup {<<")">>} THEN NoTree
  ELSE [ok |-> TRUE, tree |-> <<toks[i]>>, next |-> i + 1]

\* Term ::= Factor { (* | /) Factor }, grouping to the left
TermRest(toks, i, left) ==
  IF i <= Len(toks) /\ toks[i] \in {<<"*">>, <<"/">>}
    THEN LET right == ParseFactor(toks, i + 1) IN
         IF right.ok THEN TermRest(toks, right.next, <<toks[i], left, right.tree>>)
         ELSE NoTree
  ELSE [ok |-> TRUE, tree |-> left, next |-> i]

ParseTerm(toks, i) ==
  LET first == ParseFactor(toks, i) IN
  IF first.ok THEN TermRest(toks, first.next, first.tree) ELSE NoTree

\* Expr ::= Term { (+ | -) Term }, grouping to the left
ExprRest(toks, i, left) ==
  IF i <= Len(toks) /\ toks[i] \in {<<"+">>, <<"-">>}
    THEN LET right == ParseTerm(toks, i + 1) IN
         IF right.ok THEN ExprRest(toks, right.next, <<toks[i], left, right.tree>>)
         ELSE NoTree
  ELSE [ok |-> TRUE, tree |-> left, next |-> i]

ParseExpr(toks, i) ==
  LET first == ParseTerm(toks, i) IN
  IF first.ok THEN ExprRest(toks, first.next, first.tree) ELSE NoTree

\* the parse tree of a well-formed expression
ParseTree(e) == ParseExpr(RefLex(e, 1, <<>>), 1).tree

Parses(e) ==
  LET toks == RefLex(e, 1, <<>>)
      p == ParseExpr(toks, 1)
  IN p.ok /\ p.next = Len(toks) + 1

\* a single letter, or digits with at most one '.', which a digit follows
SimpleOperand(tok) ==
  \/ Len(tok) = 1 /\ tok[1] \in Letters
  \/ /\ \A i \in 1..Len(tok) : tok[i] \in Digits \cup {"."}
     /\ \E i \in 1..Len(tok) : tok[i] \in Digits
     /\ Cardinality({i \in 1..Len(tok) : tok[i] = "."}) <= 1
     /\ \A i \in 1..Len(tok) :
          tok[i] = "." => i < Len(tok) /\ tok[i + 1] \in Digits

\* a well-formed infix expression with single-letter and number operands
WellFormed(e) ==
  /\ Parses(e)
  /\ \A i \in 1..Len(RefLex(e, 1, <<>>)) :
       LET tok == RefLex(e, 1, <<>>)[i]
       IN tok \in Operators \cup {<<"(">>, <<")">>} \/ SimpleOperand(tok)

RECURSIVE PostOrder(_)
PostOrder(t) ==
  IF IsLeaf(t) THEN <<t[1]>> ELSE PostOrder(t[2]) \o PostOrder(t[3]) \o <<t[1]>>

RECURSIVE PreOrder(_)
PreOrder(t) ==
  IF IsLeaf(t) THEN <<t[1]>> ELSE <<t[1]>> \o PreOrder(t[2]) \o PreOrder(t[3])

RECURSIVE FullParen(_)
\* the fully parenthesized infix form "(left OP right)"
FullParen(t) ==
  IF IsLeaf(t) THEN t[1]
  ELSE <<"(">> \o FullParen(t[2]) \o <<" ">> \o t[1] \o <<" ">>
       \o FullParen(t[3]) \o <<")">>

RECURSIVE Spaced(_)
\* tokens separated by exactly one space
Spaced(toks) ==
  IF Len(toks) = 0 THEN <<>>
  ELSE IF Len(toks) = 1 THEN toks[1]
  ELSE Spaced(SubSeq(toks, 1, Len(toks) - 1)) \o <<" ">> \o toks[Len(toks)]

PostfixOf(e) == Spaced(PostOrder(ParseTree(e)))

PrefixOf(e) == Spaced(PreOrder(ParseTree(e)))

\* the height of the operand stack after a scan of well-formed postfix
\* tokens, 0 when the tokens are not well-formed postfix
RECURSIVE Height(_)
Height(toks) ==
  IF toks = <<>> THEN 0
  ELSE LET before == Height(SubSeq(toks, 1, Len(toks) - 1))
           last == toks[Len(toks)]
       IN IF last \in Operators
            THEN IF before >= 2 THEN before - 1 ELSE 0
          ELSE IF SimpleOperand(last) /\ (before >= 1 \/ Len(toks) = 1)
            THEN before + 1
          ELSE 0

\* a well-formed postfix stream: single-spaced, one value left at the end
PostfixStream(s) ==
  /\ s = Spaced(tokenizePrefixPostfix(s))
  /\ Height(tokenizePrefixPostfix(s)) = 1

\* a well-formed prefix stream is a well-formed postfix stream read backwards
PrefixStream(s) ==
  /\ s = Spaced(tokenizePrefixPostfix(s))
  /\ Height(Reverse(tokenizePrefixPostfix(s))) = 1

Count(s, c) == Cardinality({i \in 1..Len(s) : s[i] = c})

AMinusBMinusC == <<"a", "-", "b", "-", "c">>

APlusBTimesC == <<"a", "+", "b", "*", "c">>

ParenAPlusBTimesC == <<"(", "a", "+", "b", ")", "*", "c">>

(***************************************************************************)
(* Properties.                                                             *)
(***************************************************************************)
Did(names) == chain = names

\* C1: on every well-formed infix expression infixToPostfix returns the
\* post-order listing, single-spaced, of the parse tree built with * and /
\* binding tighter than + and -, equal precedence grouping to the left and
\* parentheses overriding both; a-b-c gives "a b - c -", a+b*c gives
\* "a b c * +" and (a+b)*c gives "a b + c *".
C1_PostfixIsPostOrder ==
  (Did(<<"infixToPostfix">>) /\ WellFormed(src)) =>
    /\ ret = Ok(PostfixOf(src))
    /\ src = AMinusBMinusC =>
         ret.val = <<"a", " ", "b", " ", "-", " ", "c", " ", "-">>
    /\ src = APlusBTimesC =>
         ret.val = <<"a", " ", "b", " ", "c", " ", "*", " ", "+">>
    /\ src = ParenAPlusBTimesC =>
         ret.val = <<"a", " ", "b", " ", "+", " ", "c", " ", "*">>

C1_Witness ==
  /\ Did(<<"infixToPostfix">>)
  /\ src = AMinusBMinusC
  /\ ret = Ok(<<"a", " ", "b", " ", "-", " ", "c", " ", "-">>)

\* C2: on every well-formed infix expression infixToPrefix returns the
\* pre-order listing, single-spaced, of the same left-associative parse
\* tree; a-b-c gives "- - a b c" and a+b*c gives "+ a * b c".
C2_PrefixIsPreOrder ==
  (Did(<<"infixToPrefix">>) /\ WellFormed(src)) =>
    /\ ret = Ok(PrefixOf(src))
    /\ src = AMinusBMinusC =>
         ret.val = <<"-", " ", "-", " ", "a", " ", "b", " ", "c">>
    /\ src = APlusBTimesC =>
         ret.val = <<"+", " ", "a", " ", "*", " ", "b", " ", "c">>

C2_Witness ==
  /\ Did(<<"infixToPrefix">>)
  /\ src = AMinusBMinusC
  /\ ret = Ok(<<"-", " ", "-", " ", "a", " ", "b", " ", "c">>)

\* C3: for every well-formed infix expression e, postfixToInfix of
\* infixToPostfix(e) and prefixToInfix of infixToPrefix(e) both succeed and
\* return the fully parenthesized form "(left OP right)" of the tree of e.
C3_RoundTrip ==
  /\ (Did(<<"infixToPostfix", "postfixToInfix">>) /\ WellFormed(src)) =>
       ret = Ok(FullParen(ParseTree(src)))
  /\ (Did(<<"infixToPrefix", "prefixToInfix">>) /\ WellFormed(src)) =>
       ret = Ok(FullParen(ParseTree(src)))

C3_Witness ==
  /\ Did(<<"infixToPostfix", "postfixToInfix">>)
  /\ src = APlusBTimesC
  /\ ret = Ok(<<"(", "a", " ", "+", " ", "(", "b", " ", "*", " ", "c", ")", ")">>)

\* C4: for every well-formed infix expression e, postfixToPrefix of
\* infixToPostfix(e) equals infixToPrefix(e) and prefixToPostfix of
\* infixToPrefix(e) equals infixToPostfix(e); prefixToPostfix and
\* postfixToPrefix undo each other on well-formed prefix and postfix streams.
C4_ComposedAgree ==
  /\ (Did(<<"infixToPostfix", "postfixToPrefix">>) /\ WellFormed(src)) =>
       ret.ok /\ ret = infixToPrefix(src)
  /\ (Did(<<"infixToPrefix", "prefixToPostfix">>) /\ WellFormed(src)) =>
       ret.ok /\ ret = infixToPostfix(src)
  /\ (Did(<<"postfixToPrefix", "prefixToPostfix">>) /\ PostfixStream(src)) =>
       ret = Ok(src)
  /\ (Did(<<"prefixToPostfix", "postfixToPrefix">>) /\ PrefixStream(src)) =>
       ret = Ok(src)

C4_Witness ==
  /\ Did(<<"infixToPostfix", "postfixToPrefix">>)
  /\ src = ParenAPlusBTimesC
  /\ ret = Ok(<<"*", " ", "+", " ", "a", " ", "b", " ", "c">>)

\* every character is one the infix tokenizer accepts
LexValid(s) ==
  \A i \in 1..Len(s) :
    \/ s[i] \in Whitespace \cup Digits \cup Letters
    \/ s[i] \in {"+", "-", "*", "/", "(", ")"}
    \/ s[i] = "." /\ i < Len(s) /\ s[i + 1] \in Digits

\* reading left to right, some ')' has no unmatched '(' before it
CloseUnopened(s) ==
  \E i \in 1..Len(s) :
    Count(SubSeq(s, 1, i), ")") > Count(SubSeq(s, 1, i), "(")

\* reading right to left, some '(' has no unmatched ')' after it
OpenUnclosed(s) ==
  \E i \in 1..Len(s) :
    Count(SubSeq(s, i, Len(s)), "(") > Count(SubSeq(s, i, Len(s)), ")")

Unbalanced(s) == CloseUnopened(s) \/ OpenUnclosed(s)

\* C5: on lexically valid input infixToPostfix fails with
\* MismatchedParenUnexpectedClose exactly when a left-to-right scan meets a
\* ')' with no unmatched '(' before it, otherwise with MismatchedParenUnclosed
\* exactly when a '(' is unmatched at the end; infixToPrefix reports the
\* mirrored kinds; neither returns a result when parentheses are unbalanced.
C5_ParenImbalance ==
  /\ (Did(<<"infixToPostfix">>) /\ LexValid(src)) =>
       /\ ret.err = "MismatchedParenUnexpectedClose" <=> CloseUnopened(src)
       /\ ret.err = "MismatchedParenUnclosed" <=>
            ~CloseUnopened(src) /\ OpenUnclosed(src)
       /\ Unbalanced(src) => ~ret.ok
  /\ (Did(<<"infixToPrefix">>) /\ LexValid(src)) =>
       /\ ret.err = "MismatchedParenUnexpectedClose" <=> OpenUnclosed(src)
       /\ ret.err = "MismatchedParenUnclosed" <=>
            ~OpenUnclosed(src) /\ CloseUnopened(src)
       /\ Unbalanced(src) => ~ret.ok

C5_Witness ==
  /\ Did(<<"infixToPostfix">>)
  /\ src = <<"(", "a", "+", "b">>
  /\ ret = Err("MismatchedParenUnclosed")

\* operands minus operators among the first n tokens
Net(toks, n) ==
  Cardinality({j \in 1..n : toks[j] \notin Operators})
  - Cardinality({j \in 1..n : toks[j] \in Operators})

\* some operator is reached with fewer than two elements on the stack
Starved(toks) ==
  \E i \in 1..Len(toks) : toks[i] \in Operators /\ Net(toks, i - 1) < 2

\* a non-empty stream of operand and operator tokens
OperandOperatorStream(s) ==
  /\ tokenizePrefixPostfix(s) # <<>>
  /\ \A i \in 1..Len(tokenizePrefixPostfix(s)) :
       tokenizePrefixPostfix(s)[i] \notin {<<"(">>, <<")">>}

EvaluatorOutcome(result, toks) ==
  /\ result.err = "InsufficientOperands" <=> Starved(toks)
  /\ result.err = "MalformedExpression" <=>
       ~Starved(toks) /\ Net(toks, Len(toks)) # 1
  /\ result.ok <=> ~Starved(toks) /\ Net(toks, Len(toks)) = 1

\* C6: on a non-empty stream of operand and operator tokens postfixToInfix
\* (left to right) and prefixToInfix (right to left) fail with
\* InsufficientOperands exactly when an operator is reached with fewer than
\* two elements on the stack, otherwise with MalformedExpression exactly when
\* the stack does not end with one element, and otherwise succeed.
C6_OperandCount ==
  /\ (Did(<<"postfixToInfix">>) /\ OperandOperatorStream(src)) =>
       /\ EvaluatorOutcome(ret, tokenizePrefixPostfix(src))
       /\ src = <<"a", " ", "+">> => ret.err = "InsufficientOperands"
       /\ src = <<"a", " ", "b", " ", "c">> => ret.err = "MalformedExpression"
  /\ (Did(<<"prefixToInfix">>) /\ OperandOperatorStream(src)) =>
       EvaluatorOutcome(ret, Reverse(tokenizePrefixPostfix(src)))

C6_Witness ==
  /\ Did(<<"postfixToInfix">>)
  /\ src = <<"a", " ", "b", " ", "c">>
  /\ ret = Err("MalformedExpression")

\* the operand tokens of a prefix or postfix string, in order
OperandsOf(s) == SelectSeq(tokenizePrefixPostfix(s), isOperand)

\* non-empty, one more operand than operators
OneMoreOperand(s) ==
  /\ s # <<>>
  /\ Net(tokenizePrefixPostfix(s), Len(tokenizePrefixPostfix(s))) = 1

\* C7: whenever infixToPostfix (infixToPrefix) returns without error on a
\* non-blank input, the result is a well-formed postfix (prefix) expression:
\* non-empty, one more operand than operators, accepted by postfixToInfix
\* (prefixToInfix).
C7_InfixRejectsInvalid ==
  /\ (Did(<<"infixToPostfix">>) /\ trim(src) # <<>> /\ ret.ok) =>
       OneMoreOperand(ret.val) /\ postfixToInfix(ret.val).ok
  /\ (Did(<<"infixToPrefix">>) /\ trim(src) # <<>> /\ ret.ok) =>
       OneMoreOperand(ret.val) /\ prefixToInfix(ret.val).ok

Blanks == {<<>>, <<" ">>, <<" ", "\t">>}

\* C8: every operation returns "" without failing on blank input, and
\* handleConvert on a blank input ends with no error shown and no output
\* panel shown.
C8_BlankIsEmptySuccess ==
  [][/\ \A b \in Blanks :
          /\ infixToPostfix(b) = Ok(<<>>)
          /\ infixToPrefix(b) = Ok(<<>>)
          /\ prefixToInfix(b) = Ok(<<>>)
          /\ postfixToInfix(b) = Ok(<<>>)
          /\ prefixToPostfix(b) = Ok(<<>>)
          /\ postfixToPrefix(b) = Ok(<<>>)
     /\ (handleConvert /\ trim(inputValue) = <<>>) =>
          error' = "null" /\ ~showOutput']_vars

OnlyLetters(tok) == \A i \in 1..Len(tok) : tok[i] \in Letters

OnlyNumeric(tok) == \A i \in 1..Len(tok) : tok[i] \in Digits \cup {"."}

\* C9: whenever the infix tokenizer succeeds, every operand token consists
\* only of letters or only of digits and '.'.
C9_NoMergedTokens ==
  (Len(chain) = 1 /\ chain[1] \in {"infixToPostfix", "infixToPrefix"}
   /\ tokenizeInfix(src).ok) =>
    \A i \in 1..Len(tokens) :
      isOperand(tokens[i]) => OnlyLetters(tokens[i]) \/ OnlyNumeric(tokens[i])

\* C10: whenever the first stage of prefixToPostfix (postfixToPrefix)
\* succeeds, the second stage succeeds too and the output has exactly the
\* operand tokens of the input, in the same order.
C10_SecondStageTotal ==
  /\ (Did(<<"postfixToPrefix">>) /\ postfixToInfix(src).ok) =>
       ret.ok /\ OperandsOf(ret.val) = OperandsOf(src)
  /\ (Did(<<"prefixToPostfix">>) /\ prefixToInfix(src).ok) =>
       ret.ok /\ OperandsOf(ret.val) = OperandsOf(src)

====
